---- MODULE Spec2Model ----
(***************************************************************************)
(* Multi-tenant issue & activity management API.                           *)
(*                                                                         *)
(* The model follows one HTTP request through the NestJS pipeline          *)
(* (TenantGuard, RolesGuard, parameter binding, IssuesService handler) and *)
(* takes one step per database call: every `await this.prisma...` of the   *)
(* service is one atomic action, so requests in different slots interleave *)
(* exactly at the awaits of the source.                                    *)
(***************************************************************************)
EXTENDS Integers, Sequences, FiniteSets, TLC

\* ------------------------------------------------------------------ bounds
MaxIssues == 2
MaxRequests == 3

\* Requests that can be in flight at the same time.
MaxInFlight == 2
Slots == 1..MaxInFlight

\* ------------------------------------------------------- JavaScript values
Undefined == "<undefined>"
Null == "<null>"
Truthy(v) == v \notin {Undefined, Null, ""}

\* ------------------------------------------------------------ seeded data
Orgs == {"A", "B"}
Users == {"u1", "u2", "u3"}
UserOrg == [u \in Users |-> IF u = "u3" THEN "B" ELSE "A"]

IssueStatus == {"OPEN", "IN_PROGRESS"}
RoleADMIN == "ADMIN"

IssueIds == 1..MaxIssues
NoIssue ==
    [organizationId |-> Null, createdById |-> Null, assigneeId |-> Null,
     status |-> Null, description |-> Null]
NoUser == [userId |-> Undefined, organizationId |-> Undefined, role |-> Undefined]
NoHeaders == NoUser

\* ------------------------------------------------------------- the inputs
HeaderUserIds == {Undefined, "", "u1", "u3"}
HeaderOrgIds == {Undefined, "A", "B"}
HeaderRoles == {Undefined, "", "ADMIN", "MEMBER", "admin"}
\* At most one header of a request is malformed.
HeaderSets ==
    {h \in [userId : HeaderUserIds, organizationId : HeaderOrgIds, role : HeaderRoles] :
        Cardinality({f \in {"userId", "organizationId", "role"} :
                        h[f] \notin (Users \cup Orgs \cup {"ADMIN", "MEMBER"})}) <= 1}
\* Overlapping requests are drawn from fewer callers: an administrator and a
\* member of A, an administrator of B, and a user of B who names A as the
\* organization; and one malformed request per header.
OverlapHeaderSets ==
    {h \in HeaderSets :
        \/ <<h.userId, h.organizationId, h.role>> \in
              {<<"u1", "A", "ADMIN">>, <<"u1", "A", "MEMBER">>,
               <<"u3", "B", "ADMIN">>, <<"u3", "A", "ADMIN">>}
        \/ <<h.userId, h.organizationId, h.role>> \in
              {<<Undefined, "A", "ADMIN">>, <<"u1", Undefined, "ADMIN">>,
               <<"u1", "A", "admin">>}}
Routes == {"create", "findAll", "findOne", "update", "remove"}

AssigneeInputs == {Undefined, Null, ""} \cup Users
CreateIssueDtos ==
    [status : {Undefined}, assigneeId : AssigneeInputs \ {Null}, description : {Undefined}]
\* title, description and priority are untracked fields alike: description
\* stands for them, and is given alone or not at all.
UpdateIssueDtos ==
    {d \in [status : {Undefined} \cup IssueStatus,
            assigneeId : AssigneeInputs,
            description : {Undefined, "d"}] :
        d.description # Undefined => (d.status = Undefined /\ d.assigneeId = Undefined)}
NoDto == [status |-> Undefined, assigneeId |-> Undefined, description |-> Undefined]

\* ------------------------------------------------------------------ state
VARIABLES issues, nextId, log, nextLogId, req, nreq

vars == <<issues, nextId, log, nextLogId, req, nreq>>
db == <<issues, nextId, log, nextLogId>>

NoBody == [id |-> 0]
IdleReq ==
    [pc |-> "idle", route |-> Null, headers |-> NoHeaders, user |-> NoUser,
     id |-> 0, dto |-> NoDto, existingIssue |-> NoIssue, changes |-> <<>>,
     result |-> [kind |-> Null, body |-> NoBody], issue |-> NoBody,
     prePersist |-> NoIssue, logged |-> <<>>, createdId |-> 0]

Init ==
    /\ issues = [i \in IssueIds |-> NoIssue]
    /\ nextId = 1
    /\ log = <<>>
    /\ nextLogId = 1
    /\ req = [r \in Slots |-> IdleReq]
    /\ nreq = 0

\* ---------------------------------------------------------- the database
Exists(id) == id \in IssueIds /\ issues[id] # NoIssue

\* The user lookup without its organizationId filter.
UserFindFirstAnyOrg(id, organizationId) == IF id \in Users THEN id ELSE Null

\* prisma.user.findFirst({where: {id, organizationId}})
UserFindFirst(id, organizationId) ==
    IF id \in Users /\ UserOrg[id] = organizationId THEN id ELSE Null

\* The lookup without its organizationId filter.
IssueFindFirstAnyOrg(id, organizationId) ==
    IF Exists(id) THEN issues[id] ELSE NoIssue

\* prisma.issue.findFirst({where: {id, organizationId}})
IssueFindFirst(id, organizationId) ==
    IF Exists(id) /\ issues[id].organizationId = organizationId THEN issues[id] ELSE NoIssue

\* The relations of Issue to User and Organization, and of ActivityLog to
\* Issue and User, are foreign keys: a write that breaks one throws.
IssueForeignKeys(i) ==
    /\ i.organizationId \in Orgs
    /\ i.createdById \in Users
    /\ i.assigneeId \in Users \cup {Null}

ActivityForeignKeys(e) == Exists(e.issueId) /\ e.performedBy \in Users

\* onDelete: Cascade on ActivityLog.issue.
CascadeDelete(id) == SelectSeq(log, LAMBDA e : e.issueId # id)

OrNull(v) == IF v = Undefined THEN Null ELSE v

\* The row stamped with the creator's own organization, not the caller's.
NewIssueOwnOrg(dto, userId, organizationId) ==
    [organizationId |-> IF userId \in Users THEN UserOrg[userId] ELSE organizationId,
     createdById |-> userId, assigneeId |-> OrNull(dto.assigneeId), status |-> "OPEN",
     description |-> OrNull(dto.description)]

\* prisma.issue.create({data}): the row it inserts.
NewIssue(dto, userId, organizationId) ==
    [organizationId |-> organizationId, createdById |-> userId,
     assigneeId |-> OrNull(dto.assigneeId), status |-> "OPEN",
     description |-> OrNull(dto.description)]

\* prisma.issue.update({where: {id}, data}): undefined fields are left alone.
ApplyData(i, dto) ==
    [i EXCEPT !.status = IF dto.status = Undefined THEN @ ELSE dto.status,
              !.assigneeId = IF dto.assigneeId = Undefined THEN @ ELSE dto.assigneeId,
              !.description = IF dto.description = Undefined THEN @ ELSE dto.description]

\* select: {id, name, email} of a related user (null when there is none).
UserSummary(u) == [id |-> u]

WithUsers(id, i) ==
    [id |-> id, organizationId |-> i.organizationId, createdById |-> i.createdById,
     assigneeId |-> i.assigneeId, status |-> i.status, description |-> i.description,
     createdBy |-> UserSummary(i.createdById), assignee |-> UserSummary(i.assigneeId),
     activities |-> <<>>]

Reverse(s) == [k \in 1..Len(s) |-> s[Len(s) + 1 - k]]

\* include: {activities: {orderBy: {performedAt: 'desc'}, include: {performedByUser}}}
Activities(id) ==
    LET mine == SelectSeq(log, LAMBDA e : e.issueId = id)
        view == [k \in 1..Len(mine) |->
                    [id |-> mine[k].id, issueId |-> mine[k].issueId,
                     actionType |-> mine[k].actionType,
                     oldValue |-> mine[k].oldValue, newValue |-> mine[k].newValue,
                     performedBy |-> mine[k].performedBy,
                     performedByUser |-> UserSummary(mine[k].performedBy)]]
    IN Reverse(view)

WithActivities(id, i) == [WithUsers(id, i) EXCEPT !.activities = Activities(id)]

\* findMany({where: {organizationId}, orderBy: {createdAt: 'desc'}})
FindMany(organizationId) ==
    LET desc == [k \in 1..MaxIssues |-> MaxIssues + 1 - k]
        ids == SelectSeq(desc, LAMBDA i : Exists(i) /\ issues[i].organizationId = organizationId)
    IN [k \in 1..Len(ids) |-> WithUsers(ids[k], issues[ids[k]])]

\* ActivityService.logActivity: the row it inserts. The caller passes no id
\* and no performedAt: the database gives both, the timestamp being the
\* reading of its clock, which ticks here once per insert.
ActivityRow(issueId, actionType, oldValue, newValue, performedBy) ==
    [id |-> nextLogId, issueId |-> issueId, actionType |-> actionType,
     oldValue |-> OrNull(oldValue), newValue |-> OrNull(newValue),
     performedBy |-> performedBy, performedAt |-> nextLogId]

\* ------------------------------------------------------- request plumbing
Done(r, kind, body) ==
    [req[r] EXCEPT !.pc = "done", !.result = [kind |-> kind, body |-> body]]

Fail(r, kind) == Done(r, kind, NoBody)

\* From the arrival of a request to its first database call, and from its
\* last database call to its response, a request runs in one turn of the
\* event loop: no step of another request falls in between. Every action
\* of slot r is taken in r's turn.
LocalPcs == {"tenant", "roles", "pipes", "done"}
Running == {s \in Slots : req[s].pc \in LocalPcs}
Turn(r) == Running \subseteq {r}

CreatesInFlight ==
    Cardinality({s \in Slots : req[s].route = "create" /\ req[s].pc \notin {"idle", "done"}
                                /\ req[s].createdId = 0})

\* A request arrives: its headers and its route are fixed, nothing is read yet.
Receive(r, headerSets) ==
    /\ req[r].pc = "idle"
    /\ Turn(r)
    /\ \A s \in Slots : s < r => req[s].pc # "idle"
    /\ nreq < MaxRequests
    /\ \E h \in headerSets, route \in Routes :
          /\ route = "create" => nextId + CreatesInFlight <= MaxIssues
          /\ req' = [req EXCEPT ![r] = [IdleReq EXCEPT !.pc = "tenant", !.route = route,
                                                       !.headers = h]]
    /\ nreq' = nreq + 1
    /\ UNCHANGED db

\* The header check without the role enumeration.
HeadersPresent(h) ==
    Truthy(h.userId) /\ Truthy(h.organizationId) /\ Truthy(h.role)

HeadersValid(h) ==
    /\ Truthy(h.userId) /\ Truthy(h.organizationId) /\ Truthy(h.role)
    /\ (h.role = "ADMIN" \/ h.role = "MEMBER")

TenantGuard(r) ==
    /\ req[r].pc = "tenant"
    /\ Turn(r)
    /\ LET h == req[r].headers IN
         req' = [req EXCEPT ![r] =
                    IF HeadersValid(h)
                    THEN [@ EXCEPT !.pc = "roles",
                                   !.user = [userId |-> h.userId,
                                             organizationId |-> h.organizationId,
                                             role |-> h.role]]
                    ELSE Fail(r, "Unauthorized")]
    /\ UNCHANGED <<db, nreq>>

\* @Roles metadata of the handlers.
RolesDeclared(route) == route \in {"update", "remove"}
RequiredRoles(route) == IF RolesDeclared(route) THEN {RoleADMIN} ELSE {}

\* The guard passing whoever carries an identity.
RolesAllowAnyUser(route, user) == ~RolesDeclared(route) \/ user # NoUser

RolesAllow(route, user) ==
    \/ ~RolesDeclared(route)
    \/ (user # NoUser /\ user.role \in RequiredRoles(route))

RolesGuard(r) ==
    /\ req[r].pc = "roles"
    /\ Turn(r)
    /\ req' = [req EXCEPT ![r] =
                  IF RolesAllow(req[r].route, req[r].user)
                  THEN [@ EXCEPT !.pc = "pipes"]
                  ELSE Fail(r, "Forbidden")]
    /\ UNCHANGED <<db, nreq>>

\* The first await of each handler.
FirstPc(route, dto) ==
    CASE route = "create" -> IF Truthy(dto.assigneeId) THEN "create_check" ELSE "create_insert"
      [] route = "findAll" -> "findAll"
      [] route = "findOne" -> "findOne"
      [] route = "update" -> "update_find"
      [] route = "remove" -> "remove_find"

\* @Param('id') and @Body(ValidationPipe): the handler's arguments are bound,
\* and the handler runs to its first await.
ValidationPipe(r) ==
    /\ req[r].pc = "pipes"
    /\ Turn(r)
    /\ \E id \in IssueIds, dto \in CreateIssueDtos \cup UpdateIssueDtos :
          /\ req[r].route \in {"create", "findAll"} => id = 1
          /\ req[r].route = "create" => dto \in CreateIssueDtos
          /\ req[r].route = "update" => dto \in UpdateIssueDtos
          /\ req[r].route \notin {"create", "update"} => dto = NoDto
          /\ req' = [req EXCEPT ![r] =
                        [@ EXCEPT !.pc = FirstPc(req[r].route, dto),
                                  !.id = IF req[r].route \in {"create", "findAll"} THEN 0 ELSE id,
                                  !.dto = dto]]
    /\ UNCHANGED <<db, nreq>>

Respond(r) ==
    /\ req[r].pc = "done"
    /\ Turn(r)
    /\ req' = [req EXCEPT ![r] = IdleReq]
    /\ UNCHANGED <<db, nreq>>

\* ---------------------------------------------------------- IssuesService
\* logActivity as an upsert on the issue: the latest entry of the issue is
\* overwritten in place when there is one.
LogActivityUpsert(r, row, then) ==
    LET mine == {k \in 1..Len(log) : log[k].issueId = row.issueId}
        last == CHOOSE k \in mine : \A j \in mine : j <= k
    IN IF ActivityForeignKeys(row)
       THEN /\ log' = IF mine = {} THEN Append(log, row)
                      ELSE [log EXCEPT ![last] = [row EXCEPT !.id = log[last].id]]
            /\ nextLogId' = nextLogId + 1
            /\ req' = [req EXCEPT ![r] = [then EXCEPT !.logged = Append(@, row)]]
       ELSE /\ req' = [req EXCEPT ![r] = Fail(r, "InternalError")]
            /\ UNCHANGED <<log, nextLogId>>

\* await this.activityService.logActivity(...): one insert into ActivityLog.
LogActivity(r, row, then) ==
    IF ActivityForeignKeys(row)
    THEN /\ log' = Append(log, row)
         /\ nextLogId' = nextLogId + 1
         /\ req' = [req EXCEPT ![r] = [then EXCEPT !.logged = Append(@, row)]]
    ELSE /\ req' = [req EXCEPT ![r] = Fail(r, "InternalError")]
         /\ UNCHANGED <<log, nextLogId>>

\* create: the assignee lookup, made when dto.assigneeId is truthy.
CreateCheckAssignee(r) ==
    /\ req[r].pc = "create_check"
    /\ Turn(r)
    /\ req' = [req EXCEPT ![r] =
                  IF UserFindFirst(req[r].dto.assigneeId, req[r].user.organizationId) = Null
                  THEN Fail(r, "Forbidden")
                  ELSE [@ EXCEPT !.pc = "create_insert"]]
    /\ UNCHANGED <<db, nreq>>

\* create: prisma.issue.create.
CreateInsert(r) ==
    /\ req[r].pc = "create_insert"
    /\ Turn(r)
    /\ LET row == NewIssue(req[r].dto, req[r].user.userId, req[r].user.organizationId) IN
         IF IssueForeignKeys(row)
         THEN /\ issues' = [issues EXCEPT ![nextId] = row]
              /\ nextId' = nextId + 1
              /\ req' = [req EXCEPT ![r] = [@ EXCEPT !.pc = "create_log",
                                                     !.createdId = nextId,
                                                     !.issue = WithUsers(nextId, row)]]
         ELSE /\ req' = [req EXCEPT ![r] = Fail(r, "InternalError")]
              /\ UNCHANGED <<issues, nextId>>
    /\ UNCHANGED <<log, nextLogId, nreq>>

\* create: the CREATED entry, then the return of the issue.
CreateLog(r) ==
    /\ req[r].pc = "create_log"
    /\ Turn(r)
    /\ LogActivity(r, ActivityRow(req[r].createdId, "CREATED", Undefined, Undefined,
                                  req[r].user.userId),
                   Done(r, "ok", req[r].issue))
    /\ UNCHANGED <<issues, nextId, nreq>>

FindAll(r) ==
    /\ req[r].pc = "findAll"
    /\ Turn(r)
    /\ req' = [req EXCEPT ![r] = Done(r, "ok", FindMany(req[r].user.organizationId))]
    /\ UNCHANGED <<db, nreq>>

FindOne(r) ==
    /\ req[r].pc = "findOne"
    /\ Turn(r)
    /\ LET issue == IssueFindFirst(req[r].id, req[r].user.organizationId) IN
         req' = [req EXCEPT ![r] =
                    IF issue = NoIssue
                    THEN Fail(r, "NotFound")
                    ELSE Done(r, "ok", WithActivities(req[r].id, issue))]
    /\ UNCHANGED <<db, nreq>>

\* update: const existingIssue = await this.findOne(id, organizationId).
UpdateFindOne(r) ==
    /\ req[r].pc = "update_find"
    /\ Turn(r)
    /\ LET issue == IssueFindFirst(req[r].id, req[r].user.organizationId) IN
         req' = [req EXCEPT ![r] =
                    IF issue = NoIssue
                    THEN Fail(r, "NotFound")
                    ELSE [@ EXCEPT !.existingIssue = issue,
                                   !.pc = IF Truthy(req[r].dto.assigneeId)
                                          THEN "update_check" ELSE "update_write"]]
    /\ UNCHANGED <<db, nreq>>

UpdateCheckAssignee(r) ==
    /\ req[r].pc = "update_check"
    /\ Turn(r)
    /\ req' = [req EXCEPT ![r] =
                  IF UserFindFirst(req[r].dto.assigneeId, req[r].user.organizationId) = Null
                  THEN Fail(r, "Forbidden")
                  ELSE [@ EXCEPT !.pc = "update_write"]]
    /\ UNCHANGED <<db, nreq>>

Unassigned(v) == IF Truthy(v) THEN v ELSE "unassigned"

\* The status entry with its old and new values exchanged.
StatusChangeSwapped(dto, existingIssue) ==
    IF Truthy(dto.status) /\ dto.status # existingIssue.status
    THEN <<[actionType |-> "STATUS_CHANGED", oldValue |-> dto.status,
            newValue |-> existingIssue.status]>>
    ELSE <<>>

StatusChange(dto, existingIssue) ==
    IF Truthy(dto.status) /\ dto.status # existingIssue.status
    THEN <<[actionType |-> "STATUS_CHANGED", oldValue |-> existingIssue.status,
            newValue |-> dto.status]>>
    ELSE <<>>

\* The assignee diff made only for a truthy assigneeId, as the lookup is.
AssigneeChangeTruthy(dto, existingIssue) ==
    IF Truthy(dto.assigneeId) /\ dto.assigneeId # existingIssue.assigneeId
    THEN <<[actionType |-> "ASSIGNEE_CHANGED",
            oldValue |-> Unassigned(existingIssue.assigneeId),
            newValue |-> Unassigned(dto.assigneeId)]>>
    ELSE <<>>

AssigneeChange(dto, existingIssue) ==
    IF dto.assigneeId # Undefined /\ dto.assigneeId # existingIssue.assigneeId
    THEN <<[actionType |-> "ASSIGNEE_CHANGED",
            oldValue |-> Unassigned(existingIssue.assigneeId),
            newValue |-> Unassigned(dto.assigneeId)]>>
    ELSE <<>>

\* The changes array of update.
Changes(dto, existingIssue) ==
    StatusChange(dto, existingIssue) \o AssigneeChange(dto, existingIssue)

\* update: the diff against existingIssue, then prisma.issue.update.
UpdateWrite(r) ==
    /\ req[r].pc = "update_write"
    /\ Turn(r)
    /\ LET changes == Changes(req[r].dto, req[r].existingIssue)
           row == ApplyData(issues[req[r].id], req[r].dto)
       IN IF Exists(req[r].id) /\ IssueForeignKeys(row)
          THEN /\ issues' = [issues EXCEPT ![req[r].id] = row]
               /\ req' = [req EXCEPT ![r] =
                             [@ EXCEPT !.pc = IF changes = <<>> THEN "update_log_updated"
                                              ELSE "update_log",
                                       !.changes = changes,
                                       !.issue = WithUsers(req[r].id, row),
                                       !.prePersist = issues[req[r].id]]]
          ELSE /\ req' = [req EXCEPT ![r] = Fail(r, "InternalError")]
               /\ UNCHANGED issues
    /\ UNCHANGED <<nextId, log, nextLogId, nreq>>

\* update: for (const change of changes) await logActivity(change).
UpdateLog(r) ==
    /\ req[r].pc = "update_log"
    /\ Turn(r)
    /\ LET k == Len(req[r].logged) + 1
           change == req[r].changes[k]
       IN LogActivity(r, ActivityRow(req[r].id, change.actionType, change.oldValue,
                                     change.newValue, req[r].user.userId),
                      IF k = Len(req[r].changes)
                      THEN Done(r, "ok", req[r].issue) ELSE req[r])
    /\ UNCHANGED <<issues, nextId, nreq>>

\* update: if (changes.length === 0) await logActivity(UPDATED).
UpdateLogUpdated(r) ==
    /\ req[r].pc = "update_log_updated"
    /\ Turn(r)
    /\ LogActivity(r, ActivityRow(req[r].id, "UPDATED", Undefined, Undefined,
                                  req[r].user.userId),
                   Done(r, "ok", req[r].issue))
    /\ UNCHANGED <<issues, nextId, nreq>>

\* remove: await this.findOne(id, organizationId).
RemoveFindOne(r) ==
    /\ req[r].pc = "remove_find"
    /\ Turn(r)
    /\ req' = [req EXCEPT ![r] =
                  IF IssueFindFirst(req[r].id, req[r].user.organizationId) = NoIssue
                  THEN Fail(r, "NotFound")
                  ELSE [@ EXCEPT !.pc = "remove_log"]]
    /\ UNCHANGED <<db, nreq>>

\* remove going on to the delete without its DELETED entry.
RemoveLogSkipped(r) ==
    /\ req[r].pc = "remove_log"
    /\ Turn(r)
    /\ req' = [req EXCEPT ![r] = [@ EXCEPT !.pc = "remove_delete"]]
    /\ UNCHANGED <<db, nreq>>

\* remove: the DELETED entry, written while the issue is still there.
RemoveLog(r) ==
    /\ req[r].pc = "remove_log"
    /\ Turn(r)
    /\ LogActivity(r, ActivityRow(req[r].id, "DELETED", Undefined, Undefined,
                                  req[r].user.userId),
                   [req[r] EXCEPT !.pc = "remove_delete"])
    /\ UNCHANGED <<issues, nextId, nreq>>

\* remove: prisma.issue.delete, which takes the issue's activities with it.
RemoveDelete(r) ==
    /\ req[r].pc = "remove_delete"
    /\ Turn(r)
    /\ IF Exists(req[r].id)
       THEN /\ issues' = [issues EXCEPT ![req[r].id] = NoIssue]
            /\ log' = CascadeDelete(req[r].id)
            /\ req' = [req EXCEPT ![r] = Done(r, "ok", NoBody)]
       ELSE /\ req' = [req EXCEPT ![r] = Fail(r, "InternalError")]
            /\ UNCHANGED <<issues, log>>
    /\ UNCHANGED <<nextId, nextLogId, nreq>>

\* ------------------------------------------------------ the specifications
Step(r) ==
    \/ TenantGuard(r) \/ RolesGuard(r) \/ ValidationPipe(r) \/ Respond(r)
    \/ CreateCheckAssignee(r) \/ CreateInsert(r) \/ CreateLog(r)
    \/ FindAll(r) \/ FindOne(r)
    \/ UpdateFindOne(r) \/ UpdateCheckAssignee(r) \/ UpdateWrite(r)
    \/ UpdateLog(r) \/ UpdateLogUpdated(r)
    \/ RemoveFindOne(r) \/ RemoveLog(r) \/ RemoveDelete(r)

\* Requests overlap: a request is received while another awaits the database.
Next == \E r \in Slots : Receive(r, OverlapHeaderSets) \/ Step(r)

Spec == Init /\ [][Next]_vars

\* Requests one at a time: a request is received when none is in flight.
ReceiveSeq(r) == (\A s \in Slots : req[s].pc = "idle") /\ Receive(r, HeaderSets)

NextSeq == \E r \in Slots : ReceiveSeq(r) \/ Step(r)

SpecSeq == Init /\ [][NextSeq]_vars

\* ------------------------------------------------------------- the claims
HandlerPcs ==
    {"pipes", "create_check", "create_insert", "create_log", "findAll", "findOne",
     "update_find", "update_check", "update_write", "update_log", "update_log_updated",
     "remove_find", "remove_log", "remove_delete"}
Moved(r) == req'[r] # req[r]
Finished(r, route, kind) ==
    req[r].pc = "done" /\ req[r].route = route /\ req[r].result.kind = kind
InOtherOrg(r) ==
    Exists(req[r].id) /\ issues[req[r].id].organizationId # req[r].user.organizationId

\* Past its lookup, update and remove hold an issue of the caller's organization.
C1_PastLookupOwnOrg ==
    \A r \in Slots :
        req[r].pc \in {"update_check", "update_write", "update_log", "update_log_updated",
                       "remove_log", "remove_delete"}
            => ~InOtherOrg(r)

\* The lookup of an issue of another organization.
C1_LookupStep ==
    \A r \in Slots :
        (Moved(r) /\ req[r].pc \in {"findOne", "update_find", "remove_find"} /\ InOtherOrg(r))
            => (req'[r].pc = "done" /\ req'[r].result.kind = "NotFound" /\ db' = db)

\* C1: findOne, update and remove on the id of an issue stored in another
\* organization than the caller's end in a not-found error at their first
\* lookup, which changes neither the issues nor the activity log; no later
\* step of update or remove ever runs against an issue of another organization.
C1_CrossTenantNotFound == [] C1_PastLookupOwnOrg /\ [][C1_LookupStep]_vars
C1_Witness ==
    \E r \in Slots : Finished(r, "update", "NotFound") /\ InOtherOrg(r)

\* A request in its handler carries an identity the route admits.
C2_HandlerHasRole ==
    \A r \in Slots :
        req[r].pc \in HandlerPcs
            => /\ req[r].user # NoUser
               /\ req[r].route \in {"update", "remove"} => req[r].user.role = "ADMIN"

\* Up to the role check a request has read and written nothing.
C2_NoAccessBeforeRoles ==
    \A r \in Slots :
        req[r].pc \in {"tenant", "roles"}
            => (req[r].logged = <<>> /\ req[r].createdId = 0 /\ req[r].prePersist = NoIssue
                /\ req[r].existingIssue = NoIssue)

\* The role check.
C2_RolesStep ==
    \A r \in Slots :
        (Moved(r) /\ req[r].pc = "roles")
            => /\ req[r].user # NoUser
               /\ req[r].user.role \in {"ADMIN", "MEMBER"}
               /\ db' = db
               /\ (req[r].route \in {"update", "remove"} /\ req[r].user.role = "MEMBER")
                     => (req'[r].pc = "done" /\ req'[r].result.kind = "Forbidden")
               /\ req[r].route \in {"create", "findAll", "findOne"} => req'[r].pc = "pipes"

\* C2: the role check is made on a resolved identity and before the handler:
\* it rejects a MEMBER on update and remove with a permission error, passes
\* every resolved identity on create, findAll and findOne, changes neither the
\* issues nor the log, and no handler of update or remove runs for a MEMBER.
C2_MemberCannotMutate ==
    [] C2_HandlerHasRole /\ [] C2_NoAccessBeforeRoles /\ [][C2_RolesStep]_vars
C2_Witness ==
    \E r \in Slots :
        /\ Finished(r, "remove", "Forbidden") /\ req[r].user.role = "MEMBER"
        /\ \E i \in IssueIds : Exists(i)

Resolvable(h) ==
    /\ h.userId \notin {Undefined, ""}
    /\ h.organizationId \notin {Undefined, ""}
    /\ h.role \in {"ADMIN", "MEMBER"}

\* Only resolvable headers get past the guard; the others leave no identity.
C3_ResolvedOnly ==
    \A r \in Slots :
        /\ req[r].pc \in HandlerPcs \cup {"roles"} => Resolvable(req[r].headers)
        /\ req[r].pc = "tenant" => req[r].user = NoUser
        /\ (req[r].pc = "done" /\ ~Resolvable(req[r].headers))
              => (req[r].result.kind = "Unauthorized" /\ req[r].user = NoUser
                  /\ req[r].logged = <<>> /\ req[r].createdId = 0
                  /\ req[r].prePersist = NoIssue)

\* The identity resolution.
C3_TenantStep ==
    \A r \in Slots :
        (Moved(r) /\ req[r].pc = "tenant")
            => /\ db' = db
               /\ IF Resolvable(req[r].headers)
                  THEN /\ req'[r].pc = "roles"
                       /\ req'[r].user = [userId |-> req[r].headers.userId,
                                          organizationId |-> req[r].headers.organizationId,
                                          role |-> req[r].headers.role]
                  ELSE /\ req'[r].pc = "done"
                       /\ req'[r].result.kind = "Unauthorized"
                       /\ req'[r].user = NoUser

\* C3: identity resolution is the first step of a request and touches neither
\* the issues nor the log; it attaches the identity of the headers exactly when
\* the three headers are present, non-empty and the role is ADMIN or MEMBER,
\* and otherwise ends the request with an authentication error, no identity
\* attached, before the role check and before any handler.
C3_IdentityResolution == [] C3_ResolvedOnly /\ [][C3_TenantStep]_vars
C3_Witness ==
    \E r \in Slots :
        /\ Finished(r, "update", "Unauthorized")
        /\ req[r].headers.role = "admin"
        /\ req[r].user = NoUser

\* What an entry of the log says, without its row id.
Said(row) ==
    [issueId |-> row.issueId, actionType |-> row.actionType, oldValue |-> row.oldValue,
     newValue |-> row.newValue, performedBy |-> row.performedBy]
Entry(r, actionType, oldValue, newValue) ==
    [issueId |-> req[r].id, actionType |-> actionType, oldValue |-> oldValue,
     newValue |-> newValue, performedBy |-> req[r].user.userId]
OrUnassigned(v) == IF v = Null THEN "unassigned" ELSE v
StatusDiffers(dto, stored) == dto.status # Undefined /\ dto.status # stored.status
AssigneeDiffers(dto, stored) ==
    dto.assigneeId # Undefined /\ dto.assigneeId # stored.assigneeId
\* The entries the claim asks of an update of `stored` by `dto`.
TrackedEntries(r, dto, stored) ==
    (IF StatusDiffers(dto, stored)
     THEN <<Entry(r, "STATUS_CHANGED", stored.status, dto.status)>> ELSE <<>>)
    \o (IF AssigneeDiffers(dto, stored)
        THEN <<Entry(r, "ASSIGNEE_CHANGED", OrUnassigned(stored.assigneeId),
                     OrUnassigned(dto.assigneeId))>>
        ELSE <<>>)
ExpectedEntries(r, dto, stored) ==
    IF TrackedEntries(r, dto, stored) = <<>>
    THEN <<Entry(r, "UPDATED", Null, Null)>>
    ELSE TrackedEntries(r, dto, stored)
LastN(s, n) == SubSeq(s, Len(s) - n + 1, Len(s))

\* What a successful update has appended.
C4_Appended ==
    \A r \in Slots :
        Finished(r, "update", "ok")
            => LET want == ExpectedEntries(r, req[r].dto, req[r].prePersist) IN
                 /\ [k \in 1..Len(req[r].logged) |-> Said(req[r].logged[k])] = want
                 /\ Len(log) >= Len(want)
                 /\ LastN(log, Len(want)) = req[r].logged

\* A step of an update appends at most one entry, and the one it records.
C4_AppendOnly ==
    \A r \in Slots :
        (Moved(r) /\ req[r].route = "update" /\ req[r].pc # "done")
            => \/ log' = log /\ req'[r].logged = req[r].logged
               \/ /\ Len(log') = Len(log) + 1
                  /\ SubSeq(log', 1, Len(log)) = log
                  /\ req'[r].logged = Append(req[r].logged, log'[Len(log')])

\* C4: when requests run one at a time, a successful update has appended to
\* the log, for the issue and in the caller's name, exactly one STATUS_CHANGED
\* entry if the requested status differs from the stored one, one
\* ASSIGNEE_CHANGED entry if the requested assignee differs from the stored one
\* ("unassigned" standing for no assignee), and one UPDATED entry when neither
\* differs; every step of an update leaves the log alone or appends one entry.
C4_UpdateEntries == [] C4_Appended /\ [][C4_AppendOnly]_vars
C4_Witness ==
    \E r \in Slots :
        /\ Finished(r, "update", "ok")
        /\ req[r].dto.assigneeId = Null /\ req[r].dto.status = "IN_PROGRESS"
        /\ Len(req[r].logged) = 2
        /\ req[r].logged[2].newValue = "unassigned"
C4_WitnessUpdated ==
    \E r \in Slots :
        /\ Finished(r, "update", "ok")
        /\ req[r].dto.description = "d"
        /\ Len(req[r].logged) = 1 /\ req[r].logged[1].actionType = "UPDATED"

\* The entries an update has written say, as old value, the value of `from`
\* and, as new value, the value of the request.
OldValuesFrom(r, from) ==
    \A k \in 1..Len(req[r].logged) :
        LET row == req[r].logged[k] IN
          /\ row.actionType = "STATUS_CHANGED"
                => (row.oldValue = from.status /\ row.newValue = req[r].dto.status)
          /\ row.actionType = "ASSIGNEE_CHANGED"
                => (row.oldValue = OrUnassigned(from.assigneeId)
                    /\ row.newValue = OrUnassigned(req[r].dto.assigneeId))

\* C5 as stated: in every interleaving, the old value of a STATUS_CHANGED or
\* ASSIGNEE_CHANGED entry is the value the store held immediately before the
\* update was persisted.
C5_OldIsValueBeforePersist ==
    \A r \in Slots : req[r].route = "update" => OldValuesFrom(r, req[r].prePersist)

\* C5 as amended: in every interleaving, the old value of a STATUS_CHANGED or
\* ASSIGNEE_CHANGED entry is the value the update read at its lookup of the
\* issue (which is the value before the write when no other request wrote the
\* issue in between), and the new value is the requested one.
C5_OldIsValueRead ==
    \A r \in Slots : req[r].route = "update" => OldValuesFrom(r, req[r].existingIssue)
C5_Witness ==
    \E r \in Slots :
        /\ req[r].route = "update" /\ req[r].logged # <<>>
        /\ req[r].logged[1].actionType = "STATUS_CHANGED"
        /\ req[r].prePersist.status # req[r].existingIssue.status

InOrg(u, organizationId) == u \in Users /\ UserOrg[u] = organizationId
Untouched(r) ==
    req[r].logged = <<>> /\ req[r].createdId = 0 /\ req[r].prePersist = NoIssue

\* C6 as stated: a create, or an update of an issue of the caller's
\* organization, that names as assigneeId anything but the id of a user of the
\* caller's organization ends in a permission error and has written nothing.
C6_ForeignAssigneeForbidden ==
    \A r \in Slots :
        (/\ req[r].pc = "done" /\ req[r].route \in {"create", "update"}
         /\ req[r].dto.assigneeId \notin {Undefined, Null}
         /\ ~InOrg(req[r].dto.assigneeId, req[r].user.organizationId)
         /\ req[r].route = "update" => req[r].existingIssue # NoIssue)
            => (req[r].result.kind = "Forbidden" /\ Untouched(r))

\* The part of C6 the code keeps: the same for a non-empty assigneeId.
C6_NonEmptyForeignAssigneeForbidden ==
    \A r \in Slots :
        (/\ req[r].pc = "done" /\ req[r].route \in {"create", "update"}
         /\ req[r].dto.assigneeId \notin {Undefined, Null, ""}
         /\ ~InOrg(req[r].dto.assigneeId, req[r].user.organizationId)
         /\ req[r].route = "update" => req[r].existingIssue # NoIssue)
            => (req[r].result.kind = "Forbidden" /\ Untouched(r))

\* An id that was given to an issue which is no longer stored.
Removed(id) == id < nextId /\ ~Exists(id)

\* Nothing is left of a removed issue.
C7_NoTrace ==
    /\ \A id \in IssueIds :
          Removed(id)
             => /\ \A k \in 1..Len(log) : log[k].issueId # id
                /\ \A o \in Orgs : IssueFindFirst(id, o) = NoIssue
    /\ \A r \in Slots : Finished(r, "remove", "ok") => Removed(req[r].id)

\* The delete, and a findOne on a removed id.
C7_Steps ==
    /\ \A id \in IssueIds : Removed(id) => Removed(id)'
    /\ \A r \in Slots :
          /\ (Moved(r) /\ req[r].pc = "remove_delete" /\ req'[r].result.kind = "ok")
                => /\ Exists(req[r].id)
                   /\ \E k \in 1..Len(log) :
                         /\ Said(log[k]) = Entry(r, "DELETED", Null, Null)
                         /\ \E j \in 1..Len(req[r].logged) : req[r].logged[j] = log[k]
          /\ (Moved(r) /\ req[r].pc = "findOne" /\ Removed(req[r].id))
                => (req'[r].pc = "done" /\ req'[r].result.kind = "NotFound")

\* C7: the delete of a successful remove finds in the log the DELETED entry
\* this remove wrote in the caller's name; an issue once removed stays removed,
\* no entry of the log refers to it, and every findOne on its id, whatever the
\* organization, ends in not-found.
C7_RemovedIsGone == [] C7_NoTrace /\ [][C7_Steps]_vars
C7_Witness ==
    \E r \in Slots :
        /\ Finished(r, "findOne", "NotFound") /\ Removed(req[r].id)
        /\ req[r].user.organizationId = "A"

\* What a successful create has stored and logged.
C8_Created ==
    \A r \in Slots :
        Finished(r, "create", "ok")
            => LET id == req[r].createdId
                   mine == SelectSeq(log, LAMBDA e : e.issueId = id)
               IN /\ id \in IssueIds /\ Exists(id)
                  /\ issues[id].status = "OPEN"
                  /\ issues[id].organizationId = req[r].user.organizationId
                  /\ issues[id].createdById = req[r].user.userId
                  /\ req[r].result.body.id = id
                  /\ Len(mine) = 1
                  /\ mine[1].actionType = "CREATED"
                  /\ mine[1].performedBy = req[r].user.userId

\* A create inserts one issue, once.
C8_OneInsert ==
    \A r \in Slots :
        (Moved(r) /\ req[r].route = "create" /\ req[r].pc # "done")
            => \/ issues' = issues /\ req'[r].createdId = req[r].createdId
               \/ /\ req[r].createdId = 0
                  /\ \E id \in IssueIds :
                        /\ ~Exists(id) /\ issues'[id] # NoIssue
                        /\ \A j \in IssueIds \ {id} : issues'[j] = issues[j]
                        /\ req'[r].createdId = id

\* C8: when requests run one at a time, a successful create has stored
\* exactly one new issue, with status OPEN, the caller's organization and the
\* caller as creator, and at its return the log holds for that issue exactly
\* one entry, CREATED, in the caller's name.
C8_CreateStamps == [] C8_Created /\ [][C8_OneInsert]_vars
C8_Witness ==
    \E r \in Slots :
        /\ Finished(r, "create", "ok") /\ req[r].user.role = "MEMBER"
        /\ req[r].user.organizationId = "B" /\ req[r].createdId = 2

\* C9: in every reachable state, the assignee of every stored issue that has
\* one is a user of the issue's organization.
C9_AssigneeInIssueOrg ==
    \A id \in IssueIds :
        (Exists(id) /\ issues[id].assigneeId # Null)
            => InOrg(issues[id].assigneeId, issues[id].organizationId)
C9_Witness ==
    \E r \in Slots :
        /\ Finished(r, "update", "ok")
        /\ req[r].prePersist.assigneeId = "u1"
        /\ issues[req[r].id].assigneeId = "u2"

Returned(r) ==
    IF req[r].route = "findAll"
    THEN {req[r].result.body[k] : k \in 1..Len(req[r].result.body)}
    ELSE {req[r].result.body}
Embedded(i) ==
    ({i.createdBy.id, i.assignee.id}
     \cup {i.activities[k].performedByUser.id : k \in 1..Len(i.activities)}) \ {Null}

\* C10 as stated: every issue of a successful response is of the caller's
\* organization, and so is every user embedded in it (creator, assignee,
\* performer of an activity), whatever the headers that resolved the caller.
C10_NoCrossTenantData ==
    \A r \in Slots :
        (req[r].pc = "done" /\ req[r].result.kind = "ok"
         /\ req[r].route \in {"create", "findAll", "findOne", "update"})
            => \A i \in Returned(r) :
                  /\ i.organizationId = req[r].user.organizationId
                  /\ \A u \in Embedded(i) : InOrg(u, req[r].user.organizationId)

\* The part of C10 the code keeps: the issues returned are the caller's
\* organization's, and so are their assignees.
C10_IssuesOfCallerOrg ==
    \A r \in Slots :
        (req[r].pc = "done" /\ req[r].result.kind = "ok"
         /\ req[r].route \in {"create", "findAll", "findOne", "update"})
            => \A i \in Returned(r) :
                  /\ i.organizationId = req[r].user.organizationId
                  /\ i.assignee.id # Null => InOrg(i.assignee.id, req[r].user.organizationId)

\* The entries of the log stand in the order they were written.
C11_InOrder ==
    /\ \A k \in 1..Len(log) : log[k].id < nextLogId /\ log[k].performedAt < nextLogId
    /\ \A j, k \in 1..Len(log) : j < k => log[j].id < log[k].id

\* One step, seen from every entry of the log: it stays as it is, or it
\* goes with its issue and all the issue's entries; what the step adds is new.
C11_EntryStep ==
    /\ \A k \in 1..Len(log) :
          LET e == log[k]
          IN \/ \E j \in 1..Len(log') : log'[j] = e
             \/ /\ \A j \in 1..Len(log') : log'[j].id # e.id
                /\ Exists(e.issueId) /\ issues'[e.issueId] = NoIssue
                /\ \E r \in Slots :
                      /\ req[r].pc = "remove_delete" /\ req[r].id = e.issueId
                      /\ Moved(r) /\ req'[r].result.kind = "ok"
                /\ \A j \in 1..Len(log') : log'[j].issueId # e.issueId
    /\ \A j \in 1..Len(log') :
          \/ \E k \in 1..Len(log) : log[k] = log'[j]
          \/ j = Len(log') /\ log'[j].id = nextLogId /\ nextLogId' = nextLogId + 1

\* C11: the log is append-only over every step of every request, overlapping
\* or not: an entry of the log is found in the next state with the same
\* issue id, action type, old value, new value, performer and timestamp, or
\* it is gone in a step that is the successful delete of its issue by a
\* remove, after which no entry of that issue is left; what a step adds is
\* one new entry at the end, and the entries stand in the order written.
C11_AppendOnly == [] C11_InOrder /\ [][C11_EntryStep]_vars
C11_Witness ==
    \E r \in Slots :
        /\ Finished(r, "remove", "ok") /\ Removed(req[r].id)
        /\ nextLogId = 4 /\ Len(log) = 1
        /\ log[1].issueId # req[r].id /\ log[1].actionType = "CREATED"
====
